---- MODULE Spec2Model ----
(***************************************************************************)
(* Model of the video generator (src/src/video_generator.rs): the          *)
(* CircularImageQueue, the construction of the frame jobs, the parallel    *)
(* frame compositing and the encoder invocation.                           *)
(***************************************************************************)
EXTENDS Integers, Sequences, FiniteSets, TLC

\* ------------------------------------------------------------------ bounds
\* Largest number of PNG files the scan finds.
MaxPool == 2
\* Largest count passed to next_images when the queue is exercised alone.
MaxCount == 4
\* Largest total number of references drawn when the queue is exercised alone.
MaxDemand == 7
\* Largest MP3 duration, in ticks.
MaxDuration == 2
\* Largest jump_cut_seconds, in ticks.
MaxJump == 2
\* Number of rayon worker threads.
NumWorkers == 2
\* Largest duration and largest jump cut, in tenths of a second, when the
\* timing is exercised alone.
MaxDurationTenths == 100
MaxJumpTenths == 10
\* Largest width and height of a source image, and of a target band, when
\* smart_crop_image is exercised alone (besides 800x600 and 1080x640).
MaxSide == 7
MaxBand == 7
\* Largest number of runs of the program, one after the other.
MaxRuns == 2
\* Largest number of PDF files found in the archive, and largest page count
\* of one PDF, when the PDF extractor is exercised alone.
MaxPdfs == 3
MaxPages == 2

\* ------------------------------------------------------- program constants
MOBILE_WIDTH == 1080
MOBILE_HEIGHT == 1920
STACK_HEIGHT == MOBILE_HEIGHT \div 3
MobileImagesPerFrame == 3
DesktopImagesPerFrame == 1
MaxStackedImages == 3
NameWidth == 6

\* ------------------------------------------------------------------- state
VARIABLES
  pc,                   \* position of main / create_video_precise_timing
  run,                  \* which run of the program this is, counted from 1
  inputs,               \* the file system: does the song exist, does the PNG directory
  args,                 \* Args: jump_cut_seconds (ticks), mobile_format
  mp3_duration,         \* result of get_mp3_duration (ticks)
  png_files,            \* result of find_png_files
  corrupt,              \* the PNG files that image::open cannot decode
  unique_frames_needed, \* frame count computed from duration and jump cut
  image_queue,          \* the CircularImageQueue: [images, all_images]
  emitted,              \* history: every reference next_images has returned
  refills,              \* history: positions of emitted at which a refill happened
  refill_log,           \* history: the images before and after every refill
  lastCall,             \* history: count and result of the last next_images call
  demand,               \* history: sum of the counts of all next_images calls
  frame_jobs,           \* Vec<FrameJob>
  unwritable,           \* history: frame numbers whose artifact could not be saved
  in_flight,            \* positions of the jobs some worker thread is running
  results,              \* job position -> result of process_frame_job
  runs,                 \* history: job position -> number of times it was processed
  temp_frames,          \* the directory temp_frames: file name -> artifact
  written,              \* history: <<file name, job index>> for every save
  undecoded,            \* history: <<job index, image index>> of every failed image::open
  successful_frames,    \* counter of Ok results
  frame_warnings,       \* number of "Warning: Frame .. failed" lines printed
  ffmpeg_calls,         \* history: number of ffmpeg invocations
  ffmpeg_output,        \* what is read of ffmpeg's Output: status, stderr if it failed
  error_text,           \* the text formatted into the error of a failed encode
  resolvedAtEncode,     \* history: results as they were when ffmpeg was invoked
  exit,                 \* how main ended
  timing,               \* the timing computation exercised on its own
  crop,                 \* smart_crop_image exercised on its own
  extractor             \* the PDF extractor (src/main.rs) exercised on its own

vars == <<pc, run, inputs, args, mp3_duration, png_files, corrupt, unique_frames_needed,
          image_queue, emitted, refills, refill_log, lastCall, demand, frame_jobs,
          unwritable, in_flight, results, runs, temp_frames, written, undecoded,
          successful_frames, frame_warnings, ffmpeg_calls, ffmpeg_output, error_text,
          resolvedAtEncode, exit, timing, crop, extractor>>

\* ----------------------------------------------------------------- helpers
Range(s) == {s[i] : i \in DOMAIN s}

Min(a, b) == IF a < b THEN a ELSE b

\* Paths of the PNG files a scan may find, in the order WalkDir yields them.
Paths == 1..MaxPool

Bijections(n) == {p \in [1..n -> 1..n] : \A i, j \in 1..n : i # j => p[i] # p[j]}

\* Faulty variants of Shuffle: elements drawn with replacement; one element
\* lost.
ShuffleLosingOne(s) ==
  {[i \in 1..(Len(s) - 1) |-> s[p[i + 1]]] : p \in Bijections(Len(s))}
ShuffleWithRepeats(s) == [1..Len(s) -> Range(s)]
\* slice::shuffle with thread_rng: any permutation of the slice.
Shuffle(s) == {[i \in 1..Len(s) |-> s[p[i]]] : p \in Bijections(Len(s))}

\* ------------------------------------------------------ CircularImageQueue
\* No queue has been constructed yet (live tells the two apart).
NoQueue == [images |-> <<>>, all_images |-> <<>>, live |-> FALSE]

\* CircularImageQueue::new with the shuffled vector.
NewQueue(shuffled) == [images |-> shuffled, all_images |-> shuffled, live |-> TRUE]

\* Faulty variants of NeedsRefill: no refill at all; a refill that comes one
\* element early.
RefillNever(images) == FALSE
RefillEarly(images) == Len(images) <= 1
\* The test `self.images.is_empty()` that triggers a refill.
NeedsRefill(images) == images = <<>>

\* The loop of next_images from iteration i on. fresh[i] is the shuffle of
\* all_images the rng would produce at iteration i. Returns the queue, the
\* result vector, the result positions before which a refill happened and,
\* for every refill, the images before and after it.
RECURSIVE NextImagesLoop(_, _, _, _, _, _, _)
NextImagesLoop(q, i, count, fresh, result, marks, fills) ==
  IF i > count
    THEN [queue |-> q, result |-> result, marks |-> marks, fills |-> fills]
  ELSE LET refill == NeedsRefill(q.images)
           imgs   == IF refill THEN fresh[i] ELSE q.images
           marks1 == IF refill THEN marks \cup {Len(result)} ELSE marks
           fills1 == IF refill
                       THEN Append(fills, [before |-> q.images, after |-> fresh[i]])
                       ELSE fills
       IN IF imgs # <<>>
            THEN NextImagesLoop([q EXCEPT !.images = Tail(imgs)], i + 1, count,
                                fresh, Append(result, Head(imgs)), marks1, fills1)
            ELSE NextImagesLoop([q EXCEPT !.images = imgs], i + 1, count,
                                fresh, result, marks1, fills1)

next_images(q, count, fresh) == NextImagesLoop(q, 1, count, fresh, <<>>, {}, <<>>)

\* One call image_queue.next_images(count), with its effect on the history.
NextImagesCall(count) ==
  \E fresh \in [1..count -> Shuffle(image_queue.all_images)] :
    LET r == next_images(image_queue, count, fresh)
    IN /\ image_queue' = r.queue
       /\ refills' = refills \cup {Len(emitted) + m : m \in r.marks}
       /\ refill_log' = refill_log \o r.fills
       /\ emitted' = emitted \o r.result
       /\ lastCall' = [count |-> count, result |-> r.result]
       /\ demand' = demand + count

\* -------------------------------------------------- binary floating point
\* f64 and f32 values are kept exactly: a positive value is m * 2^e with a
\* mantissa m of exactly `prec` bits (53 for f64, 24 for f32), zero has
\* m = 0. Only positive normal values and zero occur below. Mantissas and
\* the numbers of the long divisions exceed 31 bits and are kept in two
\* limbs, hi * LimbBase + lo.
F64Precision == 53
F32Precision == 24

LimbBase == 2^27

Big(n) == [hi |-> n \div LimbBase, lo |-> n % LimbBase]
BigGE(x, y) == x.hi > y.hi \/ (x.hi = y.hi /\ x.lo >= y.lo)
BigSub(x, y) ==
  IF x.lo >= y.lo THEN [hi |-> x.hi - y.hi, lo |-> x.lo - y.lo]
  ELSE [hi |-> x.hi - y.hi - 1, lo |-> x.lo + LimbBase - y.lo]
\* 2 * x + bit
BigTwice(x, bit) ==
  LET lo2 == 2 * x.lo + bit
  IN [hi |-> 2 * x.hi + lo2 \div LimbBase, lo |-> lo2 % LimbBase]
BigHalf(x) ==
  [hi |-> x.hi \div 2, lo |-> (x.hi % 2) * (LimbBase \div 2) + x.lo \div 2]
BigOdd(x) == x.lo % 2 = 1
BigPow2(k) ==
  IF k < 27 THEN [hi |-> 0, lo |-> 2^k] ELSE [hi |-> 2^(k - 27), lo |-> 0]

RECURSIVE BitLength(_)
BitLength(x) == IF x = Big(0) THEN 0 ELSE 1 + BitLength(BigHalf(x))

FloatZero == [m |-> Big(0), e |-> 0]

\* n more bits of the quotient s.r / y, for s.r < 2 * y: the bits are
\* shifted into s.q, and s.r ends as twice the remainder.
RECURSIVE QuotientBits(_, _, _)
QuotientBits(s, y, n) ==
  IF n = 0 THEN s
  ELSE IF BigGE(s.r, y)
    THEN QuotientBits([q |-> BigTwice(s.q, 1), r |-> BigTwice(BigSub(s.r, y), 0)],
                      y, n - 1)
  ELSE QuotientBits([q |-> BigTwice(s.q, 0), r |-> BigTwice(s.r, 0)], y, n - 1)

BigInc(x) ==
  IF x.lo + 1 = LimbBase THEN [hi |-> x.hi + 1, lo |-> 0]
  ELSE [hi |-> x.hi, lo |-> x.lo + 1]

\* Faulty variant of RoundedQuotient: the quotient is truncated.
TruncatedQuotient(a, y, e, prec) ==
  [m |-> QuotientBits([q |-> Big(0), r |-> a], y, prec).q, e |-> e - (prec - 1)]
\* (a / y) * 2^e for y <= a < 2 * y, rounded to prec bits, to nearest and
\* ties to even: the rounding of IEEE 754 arithmetic and of str::parse.
RoundedQuotient(a, y, e, prec) ==
  LET qr == QuotientBits([q |-> Big(0), r |-> a], y, prec)
      up == BigGE(qr.r, y) /\ (qr.r # y \/ BigOdd(qr.q))
      q1 == IF up THEN BigInc(qr.q) ELSE qr.q
  IN IF q1 = BigPow2(prec)
       THEN [m |-> BigPow2(prec - 1), e |-> e - (prec - 1) + 1]
       ELSE [m |-> q1, e |-> e - (prec - 1)]

\* The integer n * 2^e rounded to prec bits (n > 0).
RoundedBig(n, e, prec) ==
  LET s == BitLength(n) - 1
  IN RoundedQuotient(n, BigPow2(s), e + s, prec)

\* a and b scaled by powers of two until b <= a < 2 * b; k is the power of
\* two the quotient has been divided by.
RECURSIVE Normalised(_, _, _)
Normalised(a, b, k) ==
  IF a < b THEN Normalised(2 * a, b, k - 1)
  ELSE IF a >= 2 * b THEN Normalised(a, 2 * b, k + 1)
  ELSE [a |-> a, b |-> b, k |-> k]

\* The float nearest to a / b (a >= 0, b > 0): what parsing a decimal
\* numeral gives, and what `n as f32` gives for an integer n (b = 1).
FloatOfRatio(a, b, prec) ==
  IF a = 0 THEN FloatZero
  ELSE LET n == Normalised(a, b, 0)
       IN RoundedQuotient(Big(n.a), Big(n.b), n.k, prec)

\* x / y for x >= 0 and y > 0.
FloatDiv(x, y, prec) ==
  IF x = FloatZero THEN FloatZero
  ELSE LET low == ~BigGE(x.m, y.m)
           a   == IF low THEN BigTwice(x.m, 0) ELSE x.m
       IN RoundedQuotient(a, y.m, x.e - y.e - (IF low THEN 1 ELSE 0), prec)

\* The product of two integers below 2^24, in two limbs.
BigMul(x, y) ==
  LET half == 2^12
      x1 == x \div half   x0 == x % half
      y1 == y \div half   y0 == y % half
      top == x1 * y1
      mid == x1 * y0 + x0 * y1
      lo  == (top % 8) * 2^24 + (mid % 2^15) * half + x0 * y0
  IN [hi |-> top \div 8 + mid \div 2^15 + lo \div LimbBase, lo |-> lo % LimbBase]

\* x * y for f32 values x, y >= 0.
FloatMul(x, y, prec) ==
  IF x = FloatZero \/ y = FloatZero THEN FloatZero
  ELSE RoundedBig(BigMul(x.m.lo, y.m.lo), x.e + y.e, prec)

\* x > y for x, y > 0.
FloatGT(x, y) ==
  LET lx == BitLength(x.m) + x.e
      ly == BitLength(y.m) + y.e
  IN lx > ly \/ (lx = ly /\ x.m # y.m /\ BigGE(x.m, y.m))

\* x shifted right by s bits: the integer part and whether bits were lost.
RECURSIVE ShiftRight(_, _, _)
ShiftRight(x, s, lost) ==
  IF s = 0 \/ x = Big(0) THEN [int |-> x, lost |-> lost]
  ELSE ShiftRight(BigHalf(x), s - 1, lost \/ BigOdd(x))

\* The integer part of x >= 0 and whether x has a fractional part. The
\* values met below have few integer bits.
IntegerPart(x) ==
  IF x.e >= 0 THEN [int |-> (x.m.hi * LimbBase + x.m.lo) * 2^x.e, lost |-> FALSE]
  ELSE LET r == ShiftRight(x.m, -x.e, FALSE)
       IN [int |-> r.int.hi * LimbBase + r.int.lo, lost |-> r.lost]

\* f64::ceil followed by `as usize`, and `as u32`, of a value x >= 0.
CeilToInt(x) == LET r == IntegerPart(x) IN IF r.lost THEN r.int + 1 ELSE r.int
TruncToInt(x) == IntegerPart(x).int

\* ------------------------------------------------------------ timing model
\* jump_cut_seconds values the command line may give, in ticks.
JumpSet == (-1)..MaxJump

\* The value `f64 as usize` saturates to for +inf. It stands for 2^64 - 1,
\* which is beyond the integers TLC represents.
USIZE_MAX == 2147483647

\* (mp3_duration / jump_cut_seconds).ceil() as usize, for a duration >= 0,
\* both in ticks of one second: f64 holds such values exactly and their
\* quotient is rounded to a value with the same ceiling (WholeSecondsExact).
\* Values that f64 does not hold exactly are the subject of
\* UniqueFramesNeeded.
\* x / 0.0 is +inf for x > 0 and NaN for x = 0; the cast saturates (+inf to
\* usize::MAX, negative values to 0) and sends NaN to 0.
FrameCount(d, j) ==
  IF j = 0 THEN (IF d = 0 THEN 0 ELSE USIZE_MAX)
  ELSE IF j < 0 THEN 0
  ELSE (d + j - 1) \div j

\* The f64 a decimal numeral with one digit after the point parses to:
\* the --jump-cut-seconds option, and the duration ffprobe prints.
ParseTenths(tenths) == FloatOfRatio(tenths, 10, F64Precision)

\* (mp3_duration / jump_cut_seconds).ceil() as usize, in f64 arithmetic, for
\* a duration >= 0 and a jump cut > 0.
UniqueFramesNeeded(duration, jump_cut) ==
  CeilToInt(FloatDiv(duration, jump_cut, F64Precision))

\* 1.0 / jump_cut_seconds
InputFramerate(jump_cut) ==
  FloatDiv(FloatOfRatio(1, 1, F64Precision), jump_cut, F64Precision)

\* The timing computation has not been exercised.
NoTiming ==
  [duration |-> 0, jump_cut |-> 0, done |-> FALSE,
   unique_frames_needed |-> 0, input_framerate |-> FloatZero]

\* let images_per_frame = if mobile_format { 3 } else { 1 };
ImagesPerFrame(mobile_format) ==
  IF mobile_format THEN MobileImagesPerFrame ELSE DesktopImagesPerFrame

\* Vec::with_capacity panics ("capacity overflow") when the byte size of the
\* allocation exceeds isize::MAX.
CapacityOverflow(n) == n = USIZE_MAX

\* --------------------------------------------------------- frame artifacts
RECURSIVE Digits(_)
Digits(n) == IF n < 10 THEN <<n>> ELSE Append(Digits(n \div 10), n % 10)

RECURSIVE PadLeft(_, _)
PadLeft(s, w) == IF Len(s) >= w THEN s ELSE PadLeft(<<0>> \o s, w)

\* Faulty variant of FrameName: no zero padding.
FrameNameUnpadded(frame_number) == Digits(frame_number)
\* format!("frame_{:06}.png", frame_number): the decimal digits of the
\* number, zero-padded on the left to at least six. (The stacked layout
\* casts the number to u32 first, which changes nothing below 2^32.)
FrameName(frame_number) == PadLeft(Digits(frame_number), NameWidth)

NumBands == MOBILE_HEIGHT \div STACK_HEIGHT
Blank == [src |-> 0, rows |-> 0]
BlankCanvas == [b \in 0..(NumBands - 1) |-> Blank]

\* let y_offset = i as u32 * STACK_HEIGHT;
BandOffset(i) == i * STACK_HEIGHT

\* The pixel copy of image i (already cropped to STACK_HEIGHT rows): rows
\* y_offset .. y_offset + STACK_HEIGHT - 1, those below MOBILE_HEIGHT only.
\* Per band of the canvas: whose pixels it holds and how many of its rows.
PutPixels(canvas, i, path) ==
  LET first == BandOffset(i)
      last  == Min(first + STACK_HEIGHT, MOBILE_HEIGHT) - 1
      Rows(b) == LET lo == IF first > b * STACK_HEIGHT THEN first ELSE b * STACK_HEIGHT
                     hi == Min(last, (b + 1) * STACK_HEIGHT - 1)
                 IN IF hi >= lo THEN hi - lo + 1 ELSE 0
  IN [b \in DOMAIN canvas |->
        IF Rows(b) > 0 THEN [src |-> path, rows |-> Rows(b)] ELSE canvas[b]]

\* Faulty variant of StackLoop: an undecodable image ends the loop.
RECURSIVE StackLoopAbort(_, _, _, _)
StackLoopAbort(canvas, images, i, bad) ==
  IF i >= Len(images) \/ i >= MaxStackedImages THEN canvas
  ELSE IF images[i + 1] \in bad THEN canvas
  ELSE StackLoopAbort(PutPixels(canvas, i, images[i + 1]), images, i + 1, bad)
\* The loop of create_mobile_stacked_frame over images[i..], i counted from
\* 0: at most three images, an undecodable one is skipped. smart_crop_image
\* yields STACK_HEIGHT rows of the image, which PutPixels copies.
RECURSIVE StackLoop(_, _, _, _)
StackLoop(canvas, images, i, bad) ==
  IF i >= Len(images) \/ i >= MaxStackedImages THEN canvas
  ELSE IF images[i + 1] \in bad THEN StackLoop(canvas, images, i + 1, bad)
  ELSE StackLoop(PutPixels(canvas, i, images[i + 1]), images, i + 1, bad)

NoFile == [name |-> <<>>, artifact |-> <<>>]

\* The indices, from 0, of the images of a stacked frame for which
\* image::open fails and "Skipping corrupted image" is printed.
Skipped(images, bad) ==
  {i \in 0..(Min(Len(images), MaxStackedImages) - 1) : images[i + 1] \in bad}

\* create_mobile_stacked_frame: the result and the file it saves, if any.
create_mobile_stacked_frame(images, frame_number, bad, nosave) ==
  LET canvas == StackLoop(BlankCanvas, images, 0, bad)
  IN IF frame_number \in nosave
       THEN [result |-> "Err: Failed to save mobile stacked frame", file |-> NoFile,
             undecoded |-> Skipped(images, bad)]
       ELSE [result |-> "Ok",
             file |-> [name |-> FrameName(frame_number),
                       artifact |-> [layout |-> "stacked", bands |-> canvas]],
             undecoded |-> Skipped(images, bad)]

\* Faulty variant of process_frame_job: in the single layout a blank frame
\* is saved for an undecodable image.
ProcessBlankOnError(job, bad, nosave) ==
  IF job.mobile_format
    THEN create_mobile_stacked_frame(job.images, job.frame_number, bad, nosave)
  ELSE [result |-> IF job.images[1] \in bad THEN "Err: Corrupted image" ELSE "Ok",
        file |-> [name |-> FrameName(job.frame_number),
                  artifact |-> [layout |-> "single",
                                src |-> IF job.images[1] \in bad THEN 0
                                        ELSE job.images[1]]],
        undecoded |-> IF job.images[1] \in bad THEN {0} ELSE {}]
\* process_frame_job: the result and the file it saves, if any. bad are the
\* paths that do not decode, nosave the frame numbers whose save fails (a
\* failed save leaves no file).
process_frame_job(job, bad, nosave) ==
  IF job.mobile_format
    THEN create_mobile_stacked_frame(job.images, job.frame_number, bad, nosave)
  ELSE IF job.images = <<>>
    THEN [result |-> "Ok", file |-> NoFile, undecoded |-> {}]
  ELSE IF job.images[1] \in bad
    THEN [result |-> "Err: Corrupted image", file |-> NoFile, undecoded |-> {0}]
  ELSE IF job.frame_number \in nosave
    THEN [result |-> "Err: Failed to save frame", file |-> NoFile, undecoded |-> {}]
  ELSE [result |-> "Ok",
        file |-> [name |-> FrameName(job.frame_number),
                  artifact |-> [layout |-> "single", src |-> job.images[1]]],
        undecoded |-> {}]

\* The directory after a worker has saved file f into it.
Save(dir, f) ==
  IF f = NoFile THEN dir
  ELSE [n \in DOMAIN dir \cup {f.name} |-> IF n = f.name THEN f.artifact ELSE dir[n]]

\* ------------------------------------------------------------- the encoder
\* Exit statuses of ffmpeg: success and one failure.
StatusSet == {0, 1}

\* What ffmpeg may have written to stderr, as bytes: "E", and "E" followed
\* by a byte that is not valid UTF-8.
StderrSet == {<<69>>, <<69, 255>>}

\* No ffmpeg process has returned an Output.
NoOutput == [status |-> 0, stderr |-> <<>>]

\* String::from_utf8_lossy, on ASCII bytes and bytes that cannot start a
\* UTF-8 sequence: the latter become U+FFFD. The result is in code points.
FromUtf8Lossy(bytes) ==
  [i \in DOMAIN bytes |-> IF bytes[i] < 128 THEN bytes[i] ELSE 65533]

\* Faulty variant of EncoderError: the diagnostic text is dropped.
EncoderErrorBare(stderr) == <<>>
\* anyhow!("ffmpeg failed: {}", stderr): the text put after the prefix.
EncoderError(stderr) == FromUtf8Lossy(stderr)

\* -------------------------------------------------------------- smart crop
\* `n as f32` for a u32 n.
F32(n) == FloatOfRatio(n, 1, F32Precision)

\* Faulty variant of Centred: the whole margin is put on one side.
OffCentre(orig, new) ==
  IF new > orig THEN [offset |-> 0, underflow |-> TRUE]
  ELSE [offset |-> orig - new, underflow |-> FALSE]
\* (orig - new) / 2 in u32. When new > orig the subtraction underflows: the
\* build either panics or wraps around, which `underflow` records.
Centred(orig, new) ==
  IF new > orig THEN [offset |-> 0, underflow |-> TRUE]
  ELSE [offset |-> (orig - new) \div 2, underflow |-> FALSE]

\* smart_crop_image: the rectangle handed to crop_imm, and the axis cropped.
smart_crop_image(orig_width, orig_height, target_width, target_height) ==
  LET orig_ratio   == FloatDiv(F32(orig_width), F32(orig_height), F32Precision)
      target_ratio == FloatDiv(F32(target_width), F32(target_height), F32Precision)
  IN IF FloatGT(orig_ratio, target_ratio)
       THEN LET new_width == TruncToInt(FloatMul(F32(orig_height), target_ratio,
                                                 F32Precision))
                x_offset  == Centred(orig_width, new_width)
            IN [axis |-> "width", x |-> x_offset.offset, y |-> 0,
                width |-> new_width, height |-> orig_height,
                underflow |-> x_offset.underflow]
       ELSE LET new_height == TruncToInt(FloatDiv(F32(orig_width), target_ratio,
                                                  F32Precision))
                y_offset   == Centred(orig_height, new_height)
            IN [axis |-> "height", x |-> 0, y |-> y_offset.offset,
                width |-> orig_width, height |-> new_height,
                underflow |-> y_offset.underflow]

NoRect ==
  [axis |-> "none", x |-> 0, y |-> 0, width |-> 0, height |-> 0,
   underflow |-> FALSE]

\* smart_crop_image has not been exercised.
NoCrop ==
  [done |-> FALSE, orig_width |-> 0, orig_height |-> 0, target_width |-> 0,
   target_height |-> 0, rect |-> NoRect]

\* ------------------------------------------------------- the PDF extractor
\* ProcessingStats::new(): four AtomicUsize, all zero.
ProcessingStats ==
  [processed |-> 0, skipped |-> 0, errors |-> 0, total_pages |-> 0]

\* AtomicUsize::fetch_add(n, Relaxed) on one field of the statistics: one
\* indivisible read-modify-write.
fetch_add(stats, field, n) == [stats EXCEPT ![field] = @ + n]

\* What is printed at the end of main.
NoReport ==
  [printed |-> FALSE, processed |-> 0, skipped |-> 0, errors |-> 0,
   total |-> 0, total_pages |-> 0]

\* The extractor has not been exercised.
NoExtractor ==
  [pc |-> "idle", pdf_files |-> 0, skip_existing |-> TRUE,
   job |-> <<>>, page_count |-> <<>>, stats |-> ProcessingStats,
   bumps |-> <<>>, err_lines |-> 0, progress |-> 0, report |-> NoReport]

\* ------------------------------------------------------------ the pipeline
Idle ==
  /\ mp3_duration = 0
  /\ png_files = <<>>
  /\ corrupt = {}
  /\ unique_frames_needed = 0
  /\ frame_jobs = <<>>
  /\ unwritable = {}
  /\ in_flight = {}
  /\ results = <<>>
  /\ runs = <<>>
  /\ temp_frames = <<>>
  /\ written = {}
  /\ undecoded = {}
  /\ successful_frames = 0
  /\ frame_warnings = 0
  /\ ffmpeg_calls = 0
  /\ ffmpeg_output = NoOutput
  /\ error_text = <<>>
  /\ resolvedAtEncode = <<>>
  /\ exit = "running"
  /\ timing = NoTiming
  /\ crop = NoCrop
  /\ extractor = NoExtractor

NoCalls ==
  /\ emitted = <<>>
  /\ refills = {}
  /\ refill_log = <<>>
  /\ lastCall = [count |-> 0, result |-> <<>>]
  /\ demand = 0

\* What args.song.exists() and args.png_dir.exists() will answer.
InputSet == [song_exists : BOOLEAN, png_dir_exists : BOOLEAN]

\* Args::parse: the options that decide the control flow.
Init ==
  /\ pc = "main"
  /\ run = 1
  /\ inputs \in InputSet
  /\ args \in [jump_cut_seconds : JumpSet, mobile_format : BOOLEAN]
  /\ image_queue = NoQueue
  /\ NoCalls
  /\ Idle

queueVars == <<image_queue, emitted, refills, refill_log, lastCall, demand>>
scanVars == <<png_files, corrupt>>
jobVars == <<frame_jobs, unwritable>>
workVars == <<in_flight, results, runs, temp_frames, written, undecoded>>
endVars == <<successful_frames, frame_warnings, ffmpeg_calls, ffmpeg_output, error_text,
            resolvedAtEncode>>

\* return Err(..) from main, or a panic.
Fail(why) == pc' = "exited" /\ exit' = why

\* main: the song path and the PNG directory must exist.
CheckInputs ==
  /\ pc = "main"
  /\ IF ~inputs.song_exists THEN Fail("Err: MP3 file not found")
     ELSE IF ~inputs.png_dir_exists THEN Fail("Err: PNG directory not found")
     ELSE pc' = "probe" /\ exit' = exit
  /\ UNCHANGED <<run, inputs, timing, crop, extractor, args, mp3_duration, unique_frames_needed>>
  /\ UNCHANGED <<queueVars, scanVars, jobVars, workVars, endVars>>

\* get_mp3_duration: ffprobe may fail to start, exit non-zero or print
\* something that is no number.
GetMp3Duration ==
  /\ pc = "probe"
  /\ \/ /\ \E why \in {"Err: Failed to run ffprobe", "Err: ffprobe failed",
                       "Err: Failed to parse duration"} : Fail(why)
        /\ UNCHANGED mp3_duration
     \/ /\ mp3_duration' \in 0..MaxDuration
        /\ pc' = "scan"
        /\ UNCHANGED exit
  /\ UNCHANGED <<run, inputs, timing, crop, extractor, args, unique_frames_needed>>
  /\ UNCHANGED <<queueVars, scanVars, jobVars, workVars, endVars>>

\* Faulty variant of IsEmpty: an empty scan goes unnoticed.
NeverEmpty(files) == FALSE
\* png_files.is_empty()
IsEmpty(files) == files = <<>>

\* find_png_files and the check that it found something. The files are
\* numbered so that those that do not decode come first: every order of the
\* pool is still reached, by the shuffle of CircularImageQueue::new.
FindPngFiles ==
  /\ pc = "scan"
  /\ \E n \in 0..MaxPool :
       /\ png_files' = [i \in 1..n |-> i]
       /\ \E c \in 0..n : corrupt' = 1..c
       /\ IF IsEmpty(png_files') THEN Fail("Err: No PNG files found")
          ELSE pc' = "timing" /\ exit' = exit
  /\ UNCHANGED <<run, inputs, timing, crop, extractor, args, mp3_duration, unique_frames_needed>>
  /\ UNCHANGED <<queueVars, jobVars, workVars, endVars>>

\* create_video_precise_timing: the frame count.
ComputeFrames ==
  /\ pc = "timing"
  /\ unique_frames_needed' = FrameCount(mp3_duration, args.jump_cut_seconds)
  /\ pc' = "mkdir"
  /\ UNCHANGED <<run, inputs, timing, crop, extractor, args, mp3_duration, exit>>
  /\ UNCHANGED <<queueVars, scanVars, jobVars, workVars, endVars>>

\* create_dir_all(&temp_dir)?
CreateTempDir ==
  /\ pc = "mkdir"
  /\ \/ Fail("Err: create_dir_all")
     \/ pc' = "queue" /\ exit' = exit
  /\ UNCHANGED <<run, inputs, timing, crop, extractor, args, mp3_duration, unique_frames_needed>>
  /\ UNCHANGED <<queueVars, scanVars, jobVars, workVars, endVars>>

\* CircularImageQueue::new(png_files)
NewImageQueue ==
  /\ pc = "queue"
  /\ \E shuffled \in Shuffle(png_files) : image_queue' = NewQueue(shuffled)
  /\ pc' = "alloc"
  /\ UNCHANGED <<run, inputs, timing, crop, extractor, args, mp3_duration, unique_frames_needed, exit>>
  /\ UNCHANGED <<emitted, refills, refill_log, lastCall, demand>>
  /\ UNCHANGED <<scanVars, jobVars, workVars, endVars>>

\* Vec::with_capacity(unique_frames_needed)
AllocJobs ==
  /\ pc = "alloc"
  /\ IF CapacityOverflow(unique_frames_needed)
       THEN Fail("panic: capacity overflow")
       ELSE pc' = "collect" /\ exit' = exit
  /\ UNCHANGED <<run, inputs, timing, crop, extractor, args, mp3_duration, unique_frames_needed>>
  /\ UNCHANGED <<queueVars, scanVars, jobVars, workVars, endVars>>

\* Faulty variant of FrameJob: frame numbers counted from 1.
FrameJobShifted(frame_index, frame_images, mobile_format) ==
  [frame_number |-> frame_index + 1, images |-> frame_images,
   mobile_format |-> mobile_format]
\* The job pushed by iteration frame_index of the collecting loop.
FrameJob(frame_index, frame_images, mobile_format) ==
  [frame_number |-> frame_index, images |-> frame_images,
   mobile_format |-> mobile_format]

\* One iteration of `for frame_index in 0..unique_frames_needed`.
CollectJob ==
  /\ pc = "collect"
  /\ Len(frame_jobs) < unique_frames_needed
  /\ NextImagesCall(ImagesPerFrame(args.mobile_format))
  /\ frame_jobs' = Append(frame_jobs,
                     FrameJob(Len(frame_jobs), lastCall'.result, args.mobile_format))
  /\ UNCHANGED <<pc, run, inputs, timing, crop, extractor, args, mp3_duration, unique_frames_needed, exit, unwritable>>
  /\ UNCHANGED <<scanVars, workVars, endVars>>

\* The loop is over: frame_jobs.par_iter() starts.
Dispatch ==
  /\ pc = "collect"
  /\ Len(frame_jobs) >= unique_frames_needed
  /\ pc' = "parallel"
  /\ results' = [i \in 1..Len(frame_jobs) |-> "pending"]
  /\ runs' = [i \in 1..Len(frame_jobs) |-> 0]
  /\ UNCHANGED <<run, inputs, timing, crop, extractor, args, mp3_duration, unique_frames_needed, exit>>
  /\ UNCHANGED <<in_flight, temp_frames, written, undecoded>>
  /\ UNCHANGED <<queueVars, scanVars, jobVars, endVars>>

\* Faulty variant of Untaken: an item may be handed out again.
TakenAlso(i) == TRUE
\* rayon hands every item of the parallel iterator to one closure call.
Untaken(i) == results[i] = "pending" /\ i \notin in_flight

\* A worker thread that is free takes the job at position i.
Take(i) ==
  /\ pc = "parallel"
  /\ Cardinality(in_flight) < NumWorkers
  /\ Untaken(i)
  /\ in_flight' = in_flight \cup {i}
  /\ UNCHANGED <<pc, run, inputs, timing, crop, extractor, args, mp3_duration, unique_frames_needed, exit>>
  /\ UNCHANGED <<results, runs, temp_frames, written, undecoded>>
  /\ UNCHANGED <<queueVars, scanVars, jobVars, endVars>>

SaveFailed(result) ==
  result \in {"Err: Failed to save frame", "Err: Failed to save mobile stacked frame"}

\* The worker runs process_frame_job on its job and yields the result; the
\* file system decides whether the save succeeds.
Process(i) ==
  /\ pc = "parallel"
  /\ i \in in_flight
  /\ \E nosave \in {{}, {frame_jobs[i].frame_number}} :
       LET r == process_frame_job(frame_jobs[i], corrupt, nosave)
       IN /\ nosave # {} => SaveFailed(r.result)
          /\ results' = [results EXCEPT ![i] = r.result]
          /\ runs' = [runs EXCEPT ![i] = @ + 1]
          /\ temp_frames' = Save(temp_frames, r.file)
          /\ written' = IF r.file = NoFile THEN written
                        ELSE written \cup {<<r.file.name, i>>}
          /\ undecoded' = undecoded \cup {<<i, k>> : k \in r.undecoded}
          /\ unwritable' = unwritable \cup nosave
  /\ in_flight' = in_flight \ {i}
  /\ UNCHANGED <<pc, run, inputs, timing, crop, extractor, args, mp3_duration, unique_frames_needed, exit>>
  /\ UNCHANGED <<frame_jobs>>
  /\ UNCHANGED <<queueVars, scanVars, endVars>>

\* Faulty variant of AllResolved: no wait for the workers.
AnyTime == TRUE
\* collect() returns once every closure call has returned.
AllResolved ==
  /\ \A i \in DOMAIN results : results[i] # "pending"
  /\ in_flight = {}

\* Faulty variant of Join: the first Err among the results is propagated.
JoinPropagating ==
  /\ pc = "parallel"
  /\ AllResolved
  /\ IF \E i \in DOMAIN results : results[i] # "Ok"
       THEN Fail("Err: frame failed")
       ELSE pc' = "count" /\ exit' = exit
  /\ UNCHANGED <<run, inputs, timing, crop, extractor, args, mp3_duration, unique_frames_needed>>
  /\ UNCHANGED <<queueVars, scanVars, jobVars, workVars, endVars>>
\* let results: Vec<Result<()>> = ... .collect(): the results are kept, Ok or
\* Err, and none is propagated.
Join ==
  /\ pc = "parallel"
  /\ AllResolved
  /\ pc' = "count"
  /\ UNCHANGED <<run, inputs, timing, crop, extractor, args, mp3_duration, unique_frames_needed, exit>>
  /\ UNCHANGED <<queueVars, scanVars, jobVars, workVars, endVars>>

\* The loop over results that counts the successful frames.
CountResults ==
  /\ pc = "count"
  /\ successful_frames' = Cardinality({i \in DOMAIN results : results[i] = "Ok"})
  /\ frame_warnings' = Cardinality({i \in DOMAIN results : results[i] # "Ok"})
  /\ pc' = "encode"
  /\ UNCHANGED <<run, inputs, timing, crop, extractor, args, mp3_duration, unique_frames_needed, exit>>
  /\ UNCHANGED <<ffmpeg_calls, ffmpeg_output, error_text, resolvedAtEncode>>
  /\ UNCHANGED <<queueVars, scanVars, jobVars, workVars>>

\* Command::new("ffmpeg") ... .output(): ffmpeg may fail to start (there is
\* no Output then); otherwise it exits with a status and has written stderr,
\* which is read only when the status is not success and then makes the
\* error that is returned.
Encode ==
  /\ pc = "encode"
  /\ ffmpeg_calls' = ffmpeg_calls + 1
  /\ resolvedAtEncode' = results
  /\ \/ /\ Fail("Err: Failed to run ffmpeg")
        /\ UNCHANGED <<ffmpeg_output, error_text>>
     \/ \E status \in StatusSet :
          IF status # 0
            THEN \E stderr \in StderrSet :
                   /\ ffmpeg_output' = [status |-> status, stderr |-> stderr]
                   /\ Fail("Err: ffmpeg failed")
                   /\ error_text' = EncoderError(stderr)
            ELSE /\ ffmpeg_output' = [status |-> status, stderr |-> <<>>]
                 /\ pc' = "cleanup" /\ exit' = exit /\ error_text' = error_text
  /\ UNCHANGED <<run, inputs, timing, crop, extractor, args, mp3_duration, unique_frames_needed, successful_frames,
               frame_warnings>>
  /\ UNCHANGED <<queueVars, scanVars, jobVars, workVars>>

\* std::fs::remove_dir_all(&temp_dir).ok(): a failure is ignored.
Cleanup ==
  /\ pc = "cleanup"
  /\ \/ temp_frames' = <<>>
     \/ temp_frames' = temp_frames
  /\ pc' = "report"
  /\ UNCHANGED <<run, inputs, timing, crop, extractor, args, mp3_duration, unique_frames_needed, exit>>
  /\ UNCHANGED <<in_flight, results, runs, written, undecoded>>
  /\ UNCHANGED <<queueVars, scanVars, jobVars, endVars>>

\* Back in main: std::fs::metadata(&args.output_video)?
Report ==
  /\ pc = "report"
  /\ \/ Fail("Err: metadata")
     \/ pc' = "exited" /\ exit' = "Ok"
  /\ UNCHANGED <<run, inputs, timing, crop, extractor, args, mp3_duration, unique_frames_needed>>
  /\ UNCHANGED <<queueVars, scanVars, jobVars, workVars, endVars>>

Next ==
  \/ CheckInputs
  \/ GetMp3Duration
  \/ FindPngFiles
  \/ ComputeFrames
  \/ CreateTempDir
  \/ NewImageQueue
  \/ AllocJobs
  \/ CollectJob
  \/ Dispatch
  \/ \E i \in DOMAIN results : Take(i)
  \/ \E i \in DOMAIN results : Process(i)
  \/ Join
  \/ CountResults
  \/ Encode
  \/ Cleanup
  \/ Report

Spec == Init /\ [][Next]_vars

\* Every step of the sequential code is taken when it can be, and rayon runs
\* every job it was given.
Fairness ==
  /\ WF_vars(Next)

FairSpec == Init /\ [][Next]_vars /\ Fairness

\* ---------------------------------------------- one run after the other
\* The program is started again after it has exited. Everything in memory
\* starts afresh; the directory temp_frames is on disk and is what the run
\* before left there.
NewRun ==
  /\ pc = "exited"
  /\ run < MaxRuns
  /\ run' = run + 1
  /\ pc' = "main"
  /\ inputs' \in InputSet
  /\ args' \in [jump_cut_seconds : JumpSet, mobile_format : BOOLEAN]
  /\ image_queue' = NoQueue
  /\ emitted' = <<>>
  /\ refills' = {}
  /\ refill_log' = <<>>
  /\ lastCall' = [count |-> 0, result |-> <<>>]
  /\ demand' = 0
  /\ mp3_duration' = 0
  /\ png_files' = <<>>
  /\ corrupt' = {}
  /\ unique_frames_needed' = 0
  /\ frame_jobs' = <<>>
  /\ unwritable' = {}
  /\ in_flight' = {}
  /\ results' = <<>>
  /\ runs' = <<>>
  /\ written' = {}
  /\ undecoded' = {}
  /\ successful_frames' = 0
  /\ frame_warnings' = 0
  /\ ffmpeg_calls' = 0
  /\ ffmpeg_output' = NoOutput
  /\ error_text' = <<>>
  /\ resolvedAtEncode' = <<>>
  /\ exit' = "running"
  /\ UNCHANGED <<timing, crop, extractor>>
  /\ UNCHANGED temp_frames

RunsNext == Next \/ NewRun

SpecRuns == Init /\ [][RunsNext]_vars

\* ------------------------------------------- the queue exercised on its own
\* A queue built from any non-empty pool, called with any counts.
QInit ==
  /\ pc = "queue_only"
  /\ run = 1
  /\ inputs = [song_exists |-> TRUE, png_dir_exists |-> TRUE]
  /\ args = [jump_cut_seconds |-> 1, mobile_format |-> FALSE]
  /\ \E n \in 1..MaxPool :
       \E shuffled \in Shuffle([i \in 1..n |-> i]) :
         image_queue = NewQueue(shuffled)
  /\ NoCalls
  /\ Idle

QCall ==
  /\ pc = "queue_only"
  /\ \E count \in 0..MaxCount :
       /\ demand + count <= MaxDemand
       /\ NextImagesCall(count)
  /\ UNCHANGED <<pc, run, inputs, timing, crop, extractor, args, mp3_duration, unique_frames_needed, exit>>
  /\ UNCHANGED <<scanVars, jobVars, workVars, endVars>>

QNext == QCall

SpecQ == QInit /\ [][QNext]_vars

\* ------------------------------------------ the timing exercised on its own
\* Durations and jump cuts given as decimal numerals, in tenths of a second.
TInit ==
  /\ pc = "timing_only"
  /\ run = 1
  /\ inputs = [song_exists |-> TRUE, png_dir_exists |-> TRUE]
  /\ args = [jump_cut_seconds |-> 1, mobile_format |-> FALSE]
  /\ image_queue = NoQueue
  /\ NoCalls
  /\ mp3_duration = 0
  /\ png_files = <<>>
  /\ corrupt = {}
  /\ unique_frames_needed = 0
  /\ frame_jobs = <<>>
  /\ unwritable = {}
  /\ in_flight = {}
  /\ results = <<>>
  /\ runs = <<>>
  /\ temp_frames = <<>>
  /\ written = {}
  /\ undecoded = {}
  /\ successful_frames = 0
  /\ frame_warnings = 0
  /\ ffmpeg_calls = 0
  /\ ffmpeg_output = NoOutput
  /\ error_text = <<>>
  /\ resolvedAtEncode = <<>>
  /\ exit = "running"
  /\ crop = NoCrop
  /\ extractor = NoExtractor
  /\ \E d \in 0..MaxDurationTenths, j \in 1..MaxJumpTenths :
       timing = [NoTiming EXCEPT !.duration = d, !.jump_cut = j]

\* Lines 257 and 261 of create_video_precise_timing.
TCompute ==
  /\ pc = "timing_only"
  /\ ~timing.done
  /\ timing' =
       [timing EXCEPT
          !.done = TRUE,
          !.unique_frames_needed =
             UniqueFramesNeeded(ParseTenths(timing.duration), ParseTenths(timing.jump_cut)),
          !.input_framerate = InputFramerate(ParseTenths(timing.jump_cut))]
  /\ UNCHANGED <<pc, run, inputs, crop, extractor, args, mp3_duration, unique_frames_needed, exit>>
  /\ UNCHANGED <<queueVars, scanVars, jobVars, workVars, endVars>>

TNext == TCompute

SpecT == TInit /\ [][TNext]_vars

\* --------------------------------------- the smart crop exercised on its own
\* Sizes of decoded images: small ones, and 800x600.
SourceSizes == ((1..MaxSide) \X (1..MaxSide)) \cup {<<800, 600>>}
\* Sizes of target bands: small ones, and the band of the stacked layout.
BandSizes == ((1..MaxBand) \X (1..MaxBand)) \cup {<<MOBILE_WIDTH, STACK_HEIGHT>>}

CInit ==
  /\ pc = "crop_only"
  /\ run = 1
  /\ inputs = [song_exists |-> TRUE, png_dir_exists |-> TRUE]
  /\ args = [jump_cut_seconds |-> 1, mobile_format |-> TRUE]
  /\ image_queue = NoQueue
  /\ NoCalls
  /\ mp3_duration = 0
  /\ png_files = <<>>
  /\ corrupt = {}
  /\ unique_frames_needed = 0
  /\ frame_jobs = <<>>
  /\ unwritable = {}
  /\ in_flight = {}
  /\ results = <<>>
  /\ runs = <<>>
  /\ temp_frames = <<>>
  /\ written = {}
  /\ undecoded = {}
  /\ successful_frames = 0
  /\ frame_warnings = 0
  /\ ffmpeg_calls = 0
  /\ ffmpeg_output = NoOutput
  /\ error_text = <<>>
  /\ resolvedAtEncode = <<>>
  /\ exit = "running"
  /\ timing = NoTiming
  /\ extractor = NoExtractor
  /\ \E src \in SourceSizes, band \in BandSizes :
       crop = [NoCrop EXCEPT !.orig_width = src[1], !.orig_height = src[2],
                             !.target_width = band[1], !.target_height = band[2]]

\* One call of smart_crop_image.
CCrop ==
  /\ pc = "crop_only"
  /\ ~crop.done
  /\ crop' = [crop EXCEPT
                !.done = TRUE,
                !.rect = smart_crop_image(crop.orig_width, crop.orig_height,
                                          crop.target_width, crop.target_height)]
  /\ UNCHANGED <<pc, run, inputs, timing, extractor, args, mp3_duration, unique_frames_needed, exit>>
  /\ UNCHANGED <<queueVars, scanVars, jobVars, workVars, endVars>>

CNext == CCrop

SpecC == CInit /\ [][CNext]_vars

\* ------------------------------------ the PDF extractor exercised on its own
\* The PDF files of the archive are numbered 1 .. pdf_files, in the sorted
\* order of find_pdf_files. The position of the job of one file:
\*   "todo"      no worker has started it
\*   "check"     extract_pdf_to_pngs entered, before check_if_extracted
\*   "metadata"  before std::fs::metadata
\*   "convert"   before extract_pdf_pages_with_pdftoppm
\*   "pages"     processed counted, before total_pages.fetch_add
\*   "progress"  extract_pdf_to_pngs returned, before progress.inc
\*   "done"      the closure returned
Running(x) == {f \in DOMAIN x.job : x.job[f] \notin {"todo", "done"}}

\* main up to find_pdf_files: the arguments are parsed and the archive is
\* walked.
XInit ==
  /\ pc = "extract_only"
  /\ run = 1
  /\ inputs = [song_exists |-> TRUE, png_dir_exists |-> TRUE]
  /\ args = [jump_cut_seconds |-> 1, mobile_format |-> TRUE]
  /\ image_queue = NoQueue
  /\ NoCalls
  /\ mp3_duration = 0
  /\ png_files = <<>>
  /\ corrupt = {}
  /\ unique_frames_needed = 0
  /\ frame_jobs = <<>>
  /\ unwritable = {}
  /\ in_flight = {}
  /\ results = <<>>
  /\ runs = <<>>
  /\ temp_frames = <<>>
  /\ written = {}
  /\ undecoded = {}
  /\ successful_frames = 0
  /\ frame_warnings = 0
  /\ ffmpeg_calls = 0
  /\ ffmpeg_output = NoOutput
  /\ error_text = <<>>
  /\ resolvedAtEncode = <<>>
  /\ exit = "running"
  /\ timing = NoTiming
  /\ crop = NoCrop
  /\ \E n \in 0..MaxPdfs, skip \in BOOLEAN :
       extractor = [NoExtractor EXCEPT
                      !.pc = "start",
                      !.pdf_files = n,
                      !.skip_existing = skip,
                      !.job = [f \in 1..n |-> "todo"],
                      !.page_count = [f \in 1..n |-> 0],
                      !.bumps = [f \in 1..n |-> 0]]

XUnchanged ==
  /\ UNCHANGED <<pc, run, inputs, timing, crop, args, mp3_duration, unique_frames_needed, exit>>
  /\ UNCHANGED <<queueVars, scanVars, jobVars, workVars, endVars>>

\* main between find_pdf_files and the parallel region: no file ends the
\* program, a missing pdftoppm ends it with exit(1), otherwise the statistics
\* are created.
XStart ==
  /\ pc = "extract_only"
  /\ extractor.pc = "start"
  /\ IF extractor.pdf_files = 0
       THEN extractor' = [extractor EXCEPT !.pc = "exited"]
       ELSE \E pdftoppm_found \in BOOLEAN :
              extractor' = [extractor EXCEPT
                              !.pc = IF pdftoppm_found THEN "region" ELSE "exited",
                              !.stats = ProcessingStats]
  /\ XUnchanged

\* A worker thread of rayon starts the closure for one file.
XTake(f) ==
  /\ pc = "extract_only"
  /\ extractor.pc = "region"
  /\ extractor.job[f] = "todo"
  /\ Cardinality(Running(extractor)) < NumWorkers
  /\ extractor' = [extractor EXCEPT !.job[f] = "check"]
  /\ XUnchanged

\* extract_pdf_to_pngs up to the first return: a file whose first page exists
\* is counted as skipped when skip_existing is set.
XCheck(f) ==
  /\ pc = "extract_only"
  /\ extractor.pc = "region"
  /\ extractor.job[f] = "check"
  /\ \E first_page_exists \in BOOLEAN :
       IF extractor.skip_existing /\ first_page_exists
         THEN extractor' = [extractor EXCEPT
                              !.stats = fetch_add(@, "skipped", 1),
                              !.bumps[f] = @ + 1,
                              !.job[f] = "progress"]
         ELSE extractor' = [extractor EXCEPT !.job[f] = "metadata"]
  /\ XUnchanged

\* std::fs::metadata(pdf_path)?: an error is returned to the closure of main,
\* which prints it; no counter is touched.
XMetadata(f) ==
  /\ pc = "extract_only"
  /\ extractor.pc = "region"
  /\ extractor.job[f] = "metadata"
  /\ \E metadata_ok \in BOOLEAN :
       IF metadata_ok
         THEN extractor' = [extractor EXCEPT !.job[f] = "convert"]
         ELSE extractor' = [extractor EXCEPT
                              !.err_lines = @ + 1,
                              !.job[f] = "progress"]
  /\ XUnchanged

\* The match on extract_pdf_pages_with_pdftoppm: Ok counts the file as
\* processed, Err as an error.
XConvert(f) ==
  /\ pc = "extract_only"
  /\ extractor.pc = "region"
  /\ extractor.job[f] = "convert"
  /\ \/ \E page_count \in 0..MaxPages :
          extractor' = [extractor EXCEPT
                          !.stats = fetch_add(@, "processed", 1),
                          !.bumps[f] = @ + 1,
                          !.page_count[f] = page_count,
                          !.job[f] = "pages"]
     \/ extractor' = [extractor EXCEPT
                        !.stats = fetch_add(@, "errors", 1),
                        !.bumps[f] = @ + 1,
                        !.job[f] = "progress"]
  /\ XUnchanged

\* stats.total_pages.fetch_add(page_count).
XPages(f) ==
  /\ pc = "extract_only"
  /\ extractor.pc = "region"
  /\ extractor.job[f] = "pages"
  /\ extractor' = [extractor EXCEPT
                     !.stats = fetch_add(@, "total_pages", extractor.page_count[f]),
                     !.job[f] = "progress"]
  /\ XUnchanged

\* progress.inc(1): the closure returns.
XProgress(f) ==
  /\ pc = "extract_only"
  /\ extractor.pc = "region"
  /\ extractor.job[f] = "progress"
  /\ extractor' = [extractor EXCEPT !.progress = @ + 1, !.job[f] = "done"]
  /\ XUnchanged

\* for_each has returned: the counters are loaded and printed.
XReport ==
  /\ pc = "extract_only"
  /\ extractor.pc = "region"
  /\ \A f \in DOMAIN extractor.job : extractor.job[f] = "done"
  /\ LET st == extractor.stats IN
       extractor' = [extractor EXCEPT
                       !.pc = "reported",
                       !.report = [printed |-> TRUE,
                                   processed |-> st.processed,
                                   skipped |-> st.skipped,
                                   errors |-> st.errors,
                                   total |-> st.processed + st.skipped + st.errors,
                                   total_pages |-> st.total_pages]]
  /\ XUnchanged

XNext ==
  \/ XStart
  \/ \E f \in DOMAIN extractor.job : XTake(f)
  \/ \E f \in DOMAIN extractor.job : XCheck(f)
  \/ \E f \in DOMAIN extractor.job : XMetadata(f)
  \/ \E f \in DOMAIN extractor.job : XConvert(f)
  \/ \E f \in DOMAIN extractor.job : XPages(f)
  \/ \E f \in DOMAIN extractor.job : XProgress(f)
  \/ XReport

SpecX == XInit /\ [][XNext]_vars

\* ================================================================= claims
\* Positions of main after the job list is complete.
Dispatched == {"parallel", "count", "encode", "cleanup", "report"}
\* Positions between the join of the workers and the encoder invocation.
Joined == {"count", "encode"}
\* Positions at which the files of this run are all still in temp_frames.
FilesKept == {"parallel", "count", "encode"}

RECURSIVE Concat(_)
Concat(ss) == IF ss = <<>> THEN <<>> ELSE Head(ss) \o Concat(Tail(ss))

Pool == Range(image_queue.all_images)
PoolSize == Len(image_queue.all_images)
EmitCount(r) == Cardinality({i \in DOMAIN emitted : emitted[i] = r})

\* The six-digit name of frame n, written out digit by digit.
SixDigits(n) ==
  <<(n \div 100000) % 10, (n \div 10000) % 10, (n \div 1000) % 10,
    (n \div 100) % 10, (n \div 10) % 10, n % 10>>

WrittenBy(i) == {e \in written : e[2] = i}

\* C1: a queue built from a non-empty pool returns exactly `count` references
\* from every call, whatever its state and however many refills the call
\* crosses; so the references emitted so far are as many as were asked for.
C1_ExactlyKReferences ==
  pc = "queue_only" =>
    /\ Len(lastCall.result) = lastCall.count
    /\ Len(emitted) = demand

\* C1 witness: a call asked for more references than the pool holds, crossed
\* two refills and returned them all.
C1_Witness ==
  /\ pc = "queue_only"
  /\ lastCall.count > PoolSize
  /\ PoolSize >= 2
  /\ Cardinality({b \in refills : b >= Len(emitted) - lastCall.count}) >= 2
  /\ Len(lastCall.result) = lastCall.count

\* C2: two emissions of the same reference are separated by a refill: within
\* one pass through images (between two refills, the initial fill being the
\* first pass) no reference is emitted twice.
C2_NoRepeatWithinPass ==
  pc = "queue_only" =>
    \A i, j \in DOMAIN emitted :
      (i < j /\ emitted[i] = emitted[j]) => \E b \in refills : i <= b /\ b < j

\* C2 witness: a pool of two or more, a pass emitted in full, and a reference
\* emitted again right after the refill that followed.
C2_Witness ==
  /\ pc = "queue_only"
  /\ PoolSize >= 2
  /\ \E b \in refills :
       /\ b >= PoolSize
       /\ b + 1 \in DOMAIN emitted
       /\ emitted[b] = emitted[b + 1]

\* C3: reuse is balanced. Any two pool references have been emitted a number
\* of times that differs by at most 1; a refill happens only after a whole
\* pass (images empty); every completed pass emits every pool reference; so
\* the first PoolSize emissions hold every pool reference.
C3_BalancedReuse ==
  pc = "queue_only" =>
    /\ \A r1, r2 \in Pool : EmitCount(r1) - EmitCount(r2) <= 1
    /\ \A b \in refills : b > 0 /\ b % PoolSize = 0
    /\ \A k \in 0..Len(emitted) :
         (k + 1) * PoolSize <= Len(emitted) =>
           {emitted[i] : i \in (k * PoolSize + 1)..((k + 1) * PoolSize)} = Pool
    /\ Len(image_queue.images) = (PoolSize - (Len(emitted) % PoolSize)) % PoolSize
         \/ (Len(emitted) = 0 /\ Len(image_queue.images) = PoolSize)

\* C3 witness: two passes completed and a third begun on a pool of two or
\* more, so that the counts differ by exactly 1.
C3_Witness ==
  /\ pc = "queue_only"
  /\ PoolSize >= 2
  /\ Len(emitted) > 2 * PoolSize
  /\ \E r1, r2 \in Pool : EmitCount(r1) = EmitCount(r2) + 1

\* C4: the jobs are built one per frame, one next_images call each: the job
\* at position i has frame index i (from 0), it carries 1 reference in the
\* single layout and 3 in the stacked layout, the references of the jobs in
\* frame order are the queue's emission sequence, and once the parallel
\* region starts there are exactly unique_frames_needed jobs.
C4_JobsBuilt ==
  pc # "queue_only" =>
    /\ \A i \in DOMAIN frame_jobs :
         /\ frame_jobs[i].frame_number = i - 1
         /\ Len(frame_jobs[i].images) = IF args.mobile_format THEN 3 ELSE 1
         /\ frame_jobs[i].mobile_format = args.mobile_format
    /\ Concat([i \in DOMAIN frame_jobs |-> frame_jobs[i].images]) = emitted
    /\ demand = Len(frame_jobs) * (IF args.mobile_format THEN 3 ELSE 1)
    /\ pc \in Dispatched => Len(frame_jobs) = unique_frames_needed
    /\ ffmpeg_calls > 0 => Len(frame_jobs) = unique_frames_needed

\* C4 witness: two stacked jobs built from a pool of two, dispatched: six
\* references drawn across two refills.
C4_Witness ==
  /\ pc = "parallel"
  /\ args.mobile_format
  /\ Len(frame_jobs) = 2
  /\ Len(png_files) = 2
  /\ Len(emitted) = 6
  /\ Cardinality(refills) = 2

\* C5: every job is processed exactly once; no two jobs write the same file
\* name, which is the six-digit frame index of the job; and whatever the
\* order in which the workers ran, the results and the files are the ones
\* the jobs, the undecodable images and the failed saves determine.
C5_Expected(i) ==
  LET job == frame_jobs[i]
      name == SixDigits(job.frame_number)
      ok == /\ job.frame_number \notin unwritable
            /\ job.mobile_format \/ job.images[1] \notin corrupt
  IN IF ok
       THEN /\ results[i] = "Ok"
            /\ WrittenBy(i) = {<<name, i>>}
            /\ name \in DOMAIN temp_frames
            /\ IF job.mobile_format
                 THEN /\ temp_frames[name].layout = "stacked"
                      /\ \A b \in 0..2 :
                           temp_frames[name].bands[b].src \in {0, job.images[b + 1]}
                 ELSE temp_frames[name] = [layout |-> "single", src |-> job.images[1]]
       ELSE /\ results[i] \notin {"Ok", "pending"}
            /\ WrittenBy(i) = {}
            /\ name \notin DOMAIN temp_frames

C5_EachJobOnce ==
  pc # "queue_only" =>
    /\ \A i \in DOMAIN runs : runs[i] <= 1
    /\ \A i \in DOMAIN runs : runs[i] = 1 <=> results[i] # "pending"
    /\ \A e1, e2 \in written : e1[1] = e2[1] => e1[2] = e2[2]
    /\ pc \in Joined =>
         /\ \A i \in DOMAIN frame_jobs : runs[i] = 1 /\ C5_Expected(i)
         /\ Cardinality(DOMAIN temp_frames) =
              Cardinality({i \in DOMAIN results : results[i] = "Ok"})

\* C5 witness: the job of frame 1 has completed and saved its file while the
\* job of frame 0 is still running on another worker.
C5_Witness ==
  /\ pc = "parallel"
  /\ in_flight = {1}
  /\ results = <<"pending", "Ok">>
  /\ runs = <<0, 1>>
  /\ DOMAIN temp_frames = {SixDigits(1)}

\* C6: the phases are ordered. The queue and the job list change only before
\* any job is taken, and no job is taken before the list is complete; ffmpeg
\* is invoked at most once, only with every job resolved, and nothing is
\* processed afterwards; a run that ends has either invoked ffmpeg with every
\* job resolved or ended in an error without invoking it.
C6_StateOrder ==
  /\ ffmpeg_calls <= 1
  /\ (in_flight # {} \/ results # <<>> \/ written # {}) =>
       /\ pc \notin {"main", "probe", "scan", "timing", "mkdir", "queue", "alloc", "collect"}
       /\ Len(frame_jobs) = unique_frames_needed
  /\ ffmpeg_calls = 1 =>
       /\ in_flight = {}
       /\ resolvedAtEncode = results
       /\ Len(results) = unique_frames_needed
       /\ \A i \in DOMAIN results : results[i] # "pending"
  /\ pc = "exited" =>
       \/ ffmpeg_calls = 1
       \/ ffmpeg_calls = 0 /\ exit # "Ok" /\ \A i \in DOMAIN results : results[i] = "pending"

C6_StepOrder ==
  /\ (frame_jobs' # frame_jobs \/ image_queue' # image_queue \/ emitted' # emitted) =>
       /\ in_flight = {} /\ results = <<>> /\ written = {} /\ ffmpeg_calls = 0
       /\ in_flight' = {} /\ results' = <<>>
  /\ (in_flight' # in_flight \/ results' # results \/ written' # written) =>
       /\ Len(frame_jobs) = unique_frames_needed
       /\ frame_jobs' = frame_jobs
       /\ ffmpeg_calls = 0 /\ ffmpeg_calls' = 0

C6_PhasesOrdered == [](pc # "queue_only" => C6_StateOrder) /\ [][C6_StepOrder]_vars

\* C6 witness: ffmpeg has been invoked after two jobs resolved, one of them
\* in failure.
C6_Witness ==
  /\ ffmpeg_calls = 1
  /\ Len(results) = 2
  /\ \E i, j \in DOMAIN results : results[i] = "Ok" /\ results[j] = "Err: Corrupted image"

\* C7: in the single layout a job whose image does not decode ends in the
\* error "Corrupted image" and writes no file, whatever the other jobs do;
\* and every job whose image decodes (and whose save succeeds) ends Ok with
\* its own artifact under its own name.
C7_DecodeFailureIsLocal ==
  (pc # "queue_only" /\ ~args.mobile_format) =>
    \A i \in DOMAIN results :
      results[i] # "pending" =>
        LET job == frame_jobs[i]
            name == SixDigits(job.frame_number)
        IN IF job.images[1] \in corrupt
             THEN /\ results[i] = "Err: Corrupted image"
                  /\ WrittenBy(i) = {}
                  /\ name \notin DOMAIN temp_frames
             ELSE job.frame_number \notin unwritable =>
                  /\ results[i] = "Ok"
                  /\ WrittenBy(i) = {<<name, i>>}
                  /\ pc \in FilesKept =>
                       /\ name \in DOMAIN temp_frames
                       /\ temp_frames[name] = [layout |-> "single", src |-> job.images[1]]

\* C7 witness: of two single-layout jobs the first failed to decode and the
\* second wrote its artifact.
C7_Witness ==
  /\ pc = "count"
  /\ ~args.mobile_format
  /\ results = <<"Err: Corrupted image", "Ok">>
  /\ DOMAIN temp_frames = {SixDigits(1)}

\* The errors the claim lists: the pre-flight checks and the two external
\* processes.
ListedErrors ==
  {"Err: MP3 file not found", "Err: PNG directory not found",
   "Err: No PNG files found", "Err: Failed to run ffprobe", "Err: ffprobe failed",
   "Err: Failed to parse duration", "Err: Failed to run ffmpeg", "Err: ffmpeg failed"}

\* C8 as stated: once the pre-flight checks and the probe have passed the run
\* always reaches the ffmpeg invocation, and a run that ends in an error ends
\* in one of the listed errors.
C8_Original ==
  /\ (pc = "timing") ~> (ffmpeg_calls = 1)
  /\ []((pc = "exited" /\ exit # "Ok") => exit \in ListedErrors)

\* C8 as amended: once the pre-flight checks and the probe have passed, the
\* directory temp_frames has been created and the job list allocated, the run
\* always reaches the ffmpeg invocation, whatever frame jobs fail; and a run
\* that ends in an error ends in one of the listed errors, in the failure to
\* create temp_frames, in the capacity overflow of the job list or in the
\* failure to read the size of the output file.
C8_FrameErrorsNeverUnwind ==
  /\ (pc = "collect") ~> (ffmpeg_calls = 1)
  /\ []((pc = "exited" /\ exit # "Ok") =>
          exit \in ListedErrors \cup
            {"Err: create_dir_all", "panic: capacity overflow", "Err: metadata"})

\* C8 witness: ffmpeg was invoked although every frame job failed, one in the
\* decoding and one in the save.
C8_Witness ==
  /\ ffmpeg_calls = 1
  /\ Len(results) >= 2
  /\ \A i \in DOMAIN results : results[i] # "Ok"
  /\ \E i, j \in DOMAIN results :
       /\ results[i] = "Err: Corrupted image"
       /\ results[j] = "Err: Failed to save frame"

\* The band b of a stacked frame made of imgs, of which bad do not decode.
ExpectedBand(imgs, bad, b) ==
  IF b < Len(imgs) /\ imgs[b + 1] \notin bad
    THEN [src |-> imgs[b + 1], rows |-> 1920 \div 3]
    ELSE [src |-> 0, rows |-> 0]

\* create_mobile_stacked_frame on 0 to 4 images: missing images and images
\* beyond the third.
StackedOnAnyImages ==
  \A n \in 0..4 : \A imgs \in [1..n -> Paths] : \A bad \in SUBSET Paths :
    LET r == create_mobile_stacked_frame(imgs, 0, bad, {})
    IN /\ r.result = "Ok"
       /\ r.file.name = SixDigits(0)
       /\ \A b \in 0..2 : r.file.artifact.bands[b] = ExpectedBand(imgs, bad, b)
       /\ DOMAIN r.file.artifact.bands = 0..2

\* C9: a stacked job always writes exactly one artifact and ends Ok when the
\* save succeeds, whichever of its images fail to decode: band b holds the
\* whole of image b if image b exists and decodes and is blank otherwise; no
\* error is raised for a missing or undecodable image, and images beyond the
\* third are ignored.
C9_StackedBands ==
  /\ StackedOnAnyImages
  /\ (pc # "queue_only" /\ args.mobile_format) =>
       \A i \in DOMAIN results :
         results[i] # "pending" =>
           LET job == frame_jobs[i]
               name == SixDigits(job.frame_number)
           IN IF job.frame_number \in unwritable
                THEN results[i] = "Err: Failed to save mobile stacked frame"
                       /\ WrittenBy(i) = {}
                ELSE /\ results[i] = "Ok"
                     /\ WrittenBy(i) = {<<name, i>>}
                     /\ pc \in FilesKept =>
                          /\ name \in DOMAIN temp_frames
                          /\ temp_frames[name].layout = "stacked"
                          /\ \A b \in 0..2 : temp_frames[name].bands[b] =
                                               ExpectedBand(job.images, corrupt, b)

\* C9 witness: a stacked job whose middle image does not decode ended Ok with
\* the bands of its first and third image filled and the middle band blank.
C9_Witness ==
  /\ pc = "parallel"
  /\ args.mobile_format
  /\ \E i \in DOMAIN results :
       /\ results[i] = "Ok"
       /\ frame_jobs[i].images[2] \in corrupt
       /\ frame_jobs[i].images[1] \notin corrupt
       /\ frame_jobs[i].images[3] \notin corrupt
       /\ temp_frames[SixDigits(i - 1)].bands[1] = [src |-> 0, rows |-> 0]
       /\ temp_frames[SixDigits(i - 1)].bands[0].rows = 640
       /\ temp_frames[SixDigits(i - 1)].bands[2].rows = 640

\* C10: when every frame job has succeeded, the files the run has written
\* when ffmpeg is invoked are frame_000000 .. frame_<N-1>, N the frame count:
\* one file per index from 0, no gap and no file written twice.
C10_ContiguousFrames ==
  (pc # "queue_only" /\ (pc = "encode" \/ ffmpeg_calls = 1)
     /\ \A i \in DOMAIN results : results[i] = "Ok") =>
    /\ {e[1] : e \in written} = {SixDigits(k) : k \in 0..(unique_frames_needed - 1)}
    /\ Cardinality(written) = unique_frames_needed
    /\ pc = "encode" => DOMAIN temp_frames = {e[1] : e \in written}

\* C10 witness: two frames, both succeeded, ffmpeg about to be invoked.
C10_Witness ==
  /\ pc = "encode"
  /\ unique_frames_needed = 2
  /\ \A i \in DOMAIN results : results[i] = "Ok"
  /\ DOMAIN temp_frames = {SixDigits(0), SixDigits(1)}

\* When a run is about to invoke the encoder, every file of temp_frames was
\* written by a worker of that run.
OnlyOwnArtifacts ==
  pc = "encode" =>
    \A name \in DOMAIN temp_frames : \E e \in written : e[1] = name

\* Once the encoder has succeeded and the cleanup step is over, temp_frames
\* holds no file.
NoArtifactLeft ==
  (pc = "report" \/ exit \in {"Ok", "Err: metadata"}) => temp_frames = <<>>

\* C11: frame artifacts are run-scoped. In any sequence of runs (earlier runs
\* may have stopped at a failed encode, later runs may have fewer frames or
\* failed frames), the encoder of a run is given only artifacts of that run,
\* and after a successful encode no artifact remains.
C11_Original == OnlyOwnArtifacts /\ NoArtifactLeft

\* C12: if ffmpeg exits with a status other than success, the run has ended
\* in the error "ffmpeg failed" that carries the text ffmpeg wrote to stderr;
\* ffmpeg was invoked once and is not invoked again, and the run does not
\* end in success.
C12_EncoderFailureIsFatal ==
  /\ ffmpeg_calls <= 1
  /\ ffmpeg_output.status # 0 =>
        /\ pc = "exited"
        /\ exit = "Err: ffmpeg failed"
        /\ error_text = FromUtf8Lossy(ffmpeg_output.stderr)
        /\ error_text # <<>>
        /\ ffmpeg_calls = 1

\* ffmpeg has failed after the frames of a two-frame run were composed, and
\* its stderr held a byte that is not UTF-8.
C12_Witness ==
  /\ ffmpeg_output.status # 0
  /\ ffmpeg_output.stderr = <<69, 255>>
  /\ error_text = <<69, 65533>>
  /\ Len(frame_jobs) = 2
  /\ exit = "Err: ffmpeg failed"

\* The errors of main's checks of its inputs.
PreflightErrors ==
  {"Err: MP3 file not found", "Err: PNG directory not found",
   "Err: No PNG files found"}

\* Positions of a run after the scan of the PNG directory has been accepted.
PastScan ==
  {"timing", "mkdir", "queue", "alloc", "collect", "parallel", "count",
   "encode", "cleanup", "report"}

\* C13: a run whose song or PNG directory does not exist, or whose scan finds
\* no PNG file, ends in the corresponding error and goes no further; such a
\* run has created no queue, built or processed no job, written no artifact
\* and not invoked ffmpeg. So a queue is only ever built from, and
\* next_images only ever called on, a non-empty pool.
C13_PreflightIsFatal ==
  /\ (pc # "main" /\ ~inputs.song_exists) => exit = "Err: MP3 file not found"
  /\ (pc # "main" /\ inputs.song_exists /\ ~inputs.png_dir_exists) =>
        exit = "Err: PNG directory not found"
  /\ pc \in PastScan =>
        inputs.song_exists /\ inputs.png_dir_exists /\ png_files # <<>>
  /\ exit \in PreflightErrors =>
        /\ pc = "exited"
        /\ ~image_queue.live
        /\ demand = 0 /\ emitted = <<>>
        /\ frame_jobs = <<>> /\ results = <<>> /\ in_flight = {}
        /\ written = {} /\ temp_frames = <<>>
        /\ ffmpeg_calls = 0
  /\ image_queue.live => image_queue.all_images # <<>>
  /\ demand > 0 => image_queue.live

\* The scan of an existing directory found no PNG file and the run has ended.
C13_Witness ==
  /\ exit = "Err: No PNG files found"
  /\ inputs.song_exists /\ inputs.png_dir_exists
  /\ png_files = <<>>
  /\ mp3_duration = MaxDuration

\* Positions of a run from the loop that builds the jobs on.
JobsReached == {"collect", "parallel", "count", "encode", "cleanup", "report"}

\* C14: a frame count of 0 or a jump cut that is not positive is a
\* configuration error that ends the run before a job is built and before
\* ffmpeg is invoked: a run that has reached the construction of the jobs,
\* or has invoked ffmpeg, has a frame count of at least 1 and a positive
\* jump cut.
C14_Original ==
  /\ pc \in JobsReached =>
        unique_frames_needed >= 1 /\ args.jump_cut_seconds > 0
  /\ ffmpeg_calls > 0 =>
        unique_frames_needed >= 1 /\ args.jump_cut_seconds > 0

\* Positions of a run from the report of the frame counts on.
Reported == {"encode", "cleanup", "report"}

\* C15: once the counts have been reported, the frames counted as successful
\* and those reported as failed add up to the frame count; every image that
\* failed to decode belongs to a frame that is reported as failed, in the
\* single layout (skipped frame) and in the stacked one (blank band) alike;
\* and ffmpeg can be invoked whatever the counts are.
C15_Original ==
  /\ pc \in Reported =>
        /\ successful_frames + frame_warnings = unique_frames_needed
        /\ \A e \in undecoded : results[e[1]] # "Ok"
        /\ Cardinality({e[1] : e \in undecoded}) <= frame_warnings
  /\ pc = "encode" => ENABLED Encode

\* For whole numbers of seconds the f64 computation gives FrameCount.
WholeSecondsExact ==
  timing.done =>
    UniqueFramesNeeded(FloatOfRatio(timing.duration, 1, F64Precision),
                       FloatOfRatio(timing.jump_cut, 1, F64Precision))
      = FrameCount(timing.duration, timing.jump_cut)

\* The f64 value 2.0.
Two == [m |-> BigPow2(F64Precision - 1), e |-> 2 - F64Precision]

\* C17: for a duration d >= 0 and a jump cut p > 0, given as decimal numerals
\* in tenths of a second, the frame count is the ceiling of d / p and the
\* input frame rate is 1 / p (the f64 nearest to it); 10 s and 0.5 s give 20
\* frames and 2.0; a duration that is a multiple of the jump cut gives
\* exactly d / p frames.
C17_Original ==
  timing.done =>
    /\ timing.unique_frames_needed
         = (timing.duration + timing.jump_cut - 1) \div timing.jump_cut
    /\ timing.input_framerate = FloatOfRatio(10, timing.jump_cut, F64Precision)
    /\ (timing.duration = 100 /\ timing.jump_cut = 5) =>
         timing.unique_frames_needed = 20 /\ timing.input_framerate = Two
    /\ timing.duration % timing.jump_cut = 0 =>
         timing.unique_frames_needed = timing.duration \div timing.jump_cut

\* The call of smart_crop_image on a source of 800x600 for the band 1080x640
\* has returned.
Cropped800x600 ==
  /\ crop.done
  /\ crop.orig_width = 800 /\ crop.orig_height = 600
  /\ crop.target_width = 1080 /\ crop.target_height = 640

\* C18 as stated: for a source of 800x600 and the band 1080x640 the width is
\* cropped, to round(600 * 1080 / 640) pixels, with x_offset = (800 - crop
\* width) / 2, and the height is left as it is.
C18_Original ==
  Cropped800x600 =>
    /\ crop.rect.axis = "width"
    /\ crop.rect.width = (2 * 600 * 1080 + 640) \div (2 * 640)
    /\ ~crop.rect.underflow
    /\ crop.rect.x = (800 - crop.rect.width) \div 2
    /\ crop.rect.height = 600

\* C18, amended: for a source of 800x600 and the band 1080x640 the source is
\* the relatively taller one (800/600 < 1080/640): the height is cropped, to
\* floor(800 * 640 / 1080) = 474 rows, centred with y_offset = (600 - 474) / 2
\* = 63, and the width is left as it is.
C18_HeightIsCropped ==
  Cropped800x600 =>
    /\ crop.rect.axis = "height"
    /\ crop.rect.height = (800 * 640) \div 1080
    /\ crop.rect.height = 474
    /\ ~crop.rect.underflow
    /\ crop.rect.y = (600 - crop.rect.height) \div 2
    /\ crop.rect.y = 63
    /\ crop.rect.width = 800 /\ crop.rect.x = 0

C18_Witness == Cropped800x600 /\ crop.rect.axis # "none"

\* The source is relatively wider than the band: w / h > W / H.
Wider == crop.orig_width * crop.target_height > crop.target_width * crop.orig_height

\* The axis cropped and the size of the crop: the width, to floor(h * W / H),
\* when the source is wider, and the height, to floor(w * H / W), otherwise.
CropAxisAndSize ==
  crop.done =>
    IF Wider
      THEN /\ crop.rect.axis = "width"
           /\ crop.rect.height = crop.orig_height
           /\ crop.rect.width = (crop.orig_height * crop.target_width) \div crop.target_height
      ELSE /\ crop.rect.axis = "height"
           /\ crop.rect.width = crop.orig_width
           /\ crop.rect.height = (crop.orig_width * crop.target_height) \div crop.target_width

\* The rectangle is centred on the cropped axis and starts at 0 on the other.
CropCentred ==
  crop.done =>
    /\ ~crop.rect.underflow
    /\ crop.rect.x = (crop.orig_width - crop.rect.width) \div 2
    /\ crop.rect.y = (crop.orig_height - crop.rect.height) \div 2

\* The rectangle lies inside the source.
CropInside ==
  crop.done =>
    /\ ~crop.rect.underflow
    /\ crop.rect.x + crop.rect.width <= crop.orig_width
    /\ crop.rect.y + crop.rect.height <= crop.orig_height

\* The rectangle has a non-zero width and height.
CropNonEmpty == crop.done => crop.rect.width >= 1 /\ crop.rect.height >= 1

\* C20: for every source w x h and band W x H (all >= 1) one axis is cropped:
\* the width, to floor(h * W / H), when w / h > W / H, and the height, to
\* floor(w * H / W), otherwise; the rectangle is centred (offset = (original
\* - cropped) / 2), lies inside the source without underflow, and has a
\* non-zero width and height.
C20_Original == CropAxisAndSize /\ CropCentred /\ CropInside /\ CropNonEmpty

\* s holds no element twice.
NoDuplicate(s) == \A i, j \in DOMAIN s : i # j => s[i] # s[j]

\* s is a permutation of t.
IsPermutationOf(s, t) ==
  /\ Len(s) = Len(t)
  /\ \A x \in Range(s) \cup Range(t) :
       Cardinality({i \in DOMAIN s : s[i] = x}) = Cardinality({i \in DOMAIN t : t[i] = x})

\* images is a permutation of a subset of all_images, and every refill so far
\* happened on empty images and set them to a permutation of all_images.
PendingWellFormed ==
  /\ NoDuplicate(image_queue.images)
  /\ Range(image_queue.images) \subseteq Range(image_queue.all_images)
  /\ \A k \in DOMAIN refill_log :
       /\ refill_log[k].before = <<>>
       /\ IsPermutationOf(refill_log[k].after, image_queue.all_images)

\* all_images is left as it is by every step.
PoolKept == image_queue'.all_images = image_queue.all_images

\* C19: in every state of the queue, images holds no reference twice and only
\* references of all_images; all_images is never modified after
\* construction; every refill happens when images is empty and sets images to
\* a permutation of the whole of all_images.
C19_PendingIsPermutation == []PendingWellFormed /\ [][PoolKept]_vars

\* Two refills have happened on a pool of MaxPool files and images is partly
\* consumed.
C19_Witness ==
  /\ pc = "queue_only"
  /\ Len(refill_log) >= 2
  /\ PoolSize = MaxPool
  /\ image_queue.images # <<>>
  /\ Len(image_queue.images) < PoolSize

\* ---------------------------------------------------------------- C21
\* The sum of bumps[f] over the files 1 .. n: the number of increments of
\* processed, skipped and errors that the jobs have made.
RECURSIVE Increments(_, _)
Increments(bumps, n) == IF n = 0 THEN 0 ELSE bumps[n] + Increments(bumps, n - 1)

Counted ==
  extractor.stats.processed + extractor.stats.skipped + extractor.stats.errors

\* No increment of the three counters is lost.
NoIncrementLost == Counted = Increments(extractor.bumps, extractor.pdf_files)

\* A file whose job has left extract_pdf_to_pngs has incremented exactly one
\* of the three counters, once; no job increments twice.
CountedExactlyOnce ==
  \A f \in DOMAIN extractor.job :
    /\ extractor.bumps[f] <= 1
    /\ extractor.job[f] \in {"progress", "done"} => extractor.bumps[f] = 1

\* The printed Total is the number of PDF files found.
TotalIsFound ==
  extractor.report.printed => extractor.report.total = extractor.pdf_files

\* C21: in the parallel region of the PDF extractor no increment of the
\* statistics counters is lost, every PDF file found increments exactly one of
\* processed / skipped / errors exactly once, and the Total printed after the
\* region is the number of PDF files found.
C21_Original ==
  /\ NoIncrementLost
  /\ CountedExactlyOnce
  /\ TotalIsFound

====
